---- MODULE Spec2Model ----
(***************************************************************************)
(* Model of temperature_dispersion.py: the station loader, the dump        *)
(* extractor, the province/city/month aggregation, the dispersion ranking, *)
(* main's chart selection and the bar-chart renderer.                      *)
(*                                                                         *)
(* Texts are modelled by the finite sets of texts below together with the  *)
(* tables of what strip(), lower(), startswith(), the tuple pattern, int() *)
(* and float() do on them.  Temperatures are integers.  A population       *)
(* standard deviation is kept as its square, an exact fraction <<n, d>>    *)
(* with d > 0; sqrt is monotone, so the order of two deviations is the     *)
(* order of their squares.                                                 *)
(***************************************************************************)
EXTENDS Integers, Sequences, FiniteSets, TLC

VARIABLES
    pc,                  \* position of the run
    rows,                \* the reference table, header first (csv.reader rows)
    row_idx,             \* rows consumed by the csv reader
    city_to_province,    \* load_city_provinces: city -> province
    lines,               \* the dump, line by line
    line_idx,            \* lines consumed by load_city_temps
    in_city_temp,        \* load_city_temps: in_city_temp
    buffer,              \* load_city_temps: buffer
    match_idx,           \* tuple texts of the buffer already scanned
    city_month_temps,    \* the observations yielded so far
    error,               \* "none", or the exception that ended the run
    obs_idx,             \* observations consumed by build_city_monthly_map
    province_city_month, \* <<province, city, month>> -> temperature
    count,               \* compute_top_provinces: count
    province_city_annual,\* <<province, city>> -> <<sum, n>> (the mean sum/n)
    top_provinces,       \* result of compute_top_provinces
    monthly_dispersion,  \* result of compute_monthly_dispersion
    selected_province,   \* main: selected_province
    months_for_selected, \* main: months_for_selected
    chart_idx,           \* charts written by the current loop of main
    files,               \* names of the chart files written
    labels,              \* render_bar_chart_svg: labels
    labels2,             \* labels of the second rendering of the same values
    values,              \* render_bar_chart_svg: values
    width,               \* render_bar_chart_svg: width
    svg,                 \* the document rendered from labels
    svg2                 \* the document rendered from labels2

vars == <<pc, rows, row_idx, city_to_province, lines, line_idx, in_city_temp,
          buffer, match_idx, city_month_temps, error, obs_idx,
          province_city_month, count, province_city_annual, top_provinces,
          monthly_dispersion, selected_province, months_for_selected,
          chart_idx, files, labels, labels2, values, width, svg, svg2>>

loadVars == <<rows, row_idx, city_to_province>>
dumpVars == <<lines, line_idx, in_city_temp, buffer, match_idx, city_month_temps>>
buildVars == <<obs_idx, province_city_month>>
mainVars == <<count, province_city_annual, top_provinces, monthly_dispersion,
              selected_province, months_for_selected, chart_idx, files>>
renderVars == <<labels, labels2, values, width, svg, svg2>>

NoMap == [x \in {} |-> ""]
NoDoc == [rendered |-> FALSE]

(***************************************************************************)
(* Bounds of the inputs.                                                   *)
(***************************************************************************)
MaxRows == 2
MaxLines == 3
MaxObs == 3
MaxCells == 4
MaxCount == 3
MaxBars == 2

(***************************************************************************)
(* Sequences over a set, up to a length.                                   *)
(***************************************************************************)
SeqsUpTo(S, n) == UNION {[1..k -> S] : k \in 0..n}

IsPrefix(s, t) == Len(s) <= Len(t) /\ SubSeq(t, 1, Len(s)) = s

RECURSIVE Flatten(_)
Flatten(ss) == IF ss = <<>> THEN <<>> ELSE Head(ss) \o Flatten(Tail(ss))

(***************************************************************************)
(* load_city_provinces                                                     *)
(***************************************************************************)
\* str.strip() on the field texts of the model.
Strip(s) ==
    CASE s = " A " -> "A"
      [] s = " b " -> "b"
      [] s = "  " -> ""
      [] OTHER -> s

HeaderRow == <<"station_id", "name", "province", "city">>

StationRows ==
    { <<"1", "n", "A", "a">>, <<"2", "n", "B", "a">>, <<"3", "n", "B", "b">>,
      <<"4", "n", "  ", "a">>, <<"5", "n", "A", "">>, <<"6", "n", "B">>,
      <<"7", "n", " A ", " b ">> }

StationFiles == {<<>>} \cup {<<HeaderRow>> \o d : d \in SeqsUpTo(StationRows, MaxRows)}

\* next(reader, None): the first row, if there is one, is consumed unread.
SkipHeader(rs) == IF Len(rs) > 0 THEN 1 ELSE 0

\* The body of the loop over the rows: the mapping after one row.
ReadRowOverwrites(map, row) ==
    IF Len(row) < 4 THEN map
    ELSE LET province == Strip(row[3])
             city == Strip(row[4])
         IN IF city # "" /\ province # ""
            THEN (city :> province) @@ map
            ELSE map
ReadRow(map, row) ==
    IF Len(row) < 4 THEN map
    ELSE LET province == Strip(row[3])
             city == Strip(row[4])
         IN IF city # "" /\ province # "" /\ city \notin DOMAIN map
            THEN (city :> province) @@ map
            ELSE map

OpenStation ==
    /\ pc = "load_city_provinces"
    /\ row_idx' = SkipHeader(rows)
    /\ pc' = "station_rows"
    /\ UNCHANGED <<rows, city_to_province, dumpVars, error, buildVars, mainVars, renderVars>>

StationRow ==
    /\ pc = "station_rows"
    /\ row_idx < Len(rows)
    /\ city_to_province' = ReadRow(city_to_province, rows[row_idx + 1])
    /\ row_idx' = row_idx + 1
    /\ UNCHANGED <<pc, rows, dumpVars, error, buildVars, mainVars, renderVars>>

StationDone ==
    /\ pc = "station_rows"
    /\ row_idx = Len(rows)
    /\ pc' = "load_city_temps"
    /\ UNCHANGED <<loadVars, dumpVars, error, buildVars, mainVars, renderVars>>

(***************************************************************************)
(* load_city_temps                                                         *)
(***************************************************************************)
\* A line of the dump: the text it starts with, the parenthesised texts on
\* it in order, and whether it holds a ';'.
InsertUpper == "INSERT INTO city_temp VALUES"
InsertLower == "insert into city_temp values"
InsertOther == "INSERT INTO station VALUES"
NoHead == "("

\* str.lower() on the line heads of the model.
Lower(s) ==
    CASE s = InsertUpper -> InsertLower
      [] s = InsertOther -> "insert into station values"
      [] OTHER -> s

\* lower.startswith("insert into city_temp")
StartsWithTarget(l) == l = InsertLower

Tup(m, c, t) == [month |-> m, city |-> c, temp |-> t]

DigitTexts == {"1", "01", "2"}
\* Texts the class [-\d.]+ matches; float() raises ValueError on the last two.
TempTexts == {"5.0", "-3", "7", "1.2.3", "-"}

\* int() on a text of digits.
IntOf(s) == CASE s = "1" -> 1 [] s = "01" -> 1 [] s = "2" -> 2

FloatParses(s) == s \in {"5.0", "-3", "7"}
\* float() on a text it parses.
FloatOf(s) == CASE s = "5.0" -> 5 [] s = "-3" -> -3 [] s = "7" -> 7

\* The pattern \((\d+),\s*'([^']+)',\s*([-\d.]+)\) on one parenthesised text.
Matches(t) == t.month \in DigitTexts /\ t.city # "" /\ t.temp \in TempTexts

Line(h, ts, s) == [head |-> h, tuples |-> ts, semi |-> s]

DumpLines ==
    { Line(InsertUpper, <<>>, FALSE),
      Line(InsertUpper, <<Tup("1", "a", "5.0")>>, TRUE),
      Line(InsertLower, <<Tup("2", "b", "7")>>, FALSE),
      Line(NoHead, <<Tup("01", "a", "-3"), Tup("2", "b", "7")>>, FALSE),
      Line(NoHead, <<Tup("1", "zz", "5.0"), Tup("1", "b", "NULL")>>, FALSE),
      Line(NoHead, <<Tup("x", "a", "5.0"), Tup("1", "a", "1.2.3")>>, FALSE),
      Line(NoHead, <<Tup("2", "a", "7")>>, TRUE),
      Line(InsertOther, <<Tup("2", "b", "-3")>>, TRUE),
      Line(InsertOther, <<>>, FALSE) }

Dumps == SeqsUpTo(DumpLines, MaxLines)

\* The dumps of the runs that start at the reference table.
SampleDumps ==
    { <<Line(InsertUpper, <<>>, FALSE),
        Line(NoHead, <<Tup("1", "a", "5.0"), Tup("1", "b", "7")>>, FALSE),
        Line(NoHead, <<Tup("01", "a", "-3"), Tup("2", "b", "7")>>, TRUE)>>,
      <<Line(InsertUpper, <<Tup("1", "a", "5.0")>>, FALSE),
        Line(NoHead, <<Tup("1", "a", "1.2.3"), Tup("2", "b", "7")>>, TRUE)>>,
      <<Line(InsertOther, <<Tup("2", "b", "-3")>>, TRUE)>> }

Lookups == { ("a" :> "A") @@ ("b" :> "B"), ("a" :> "A") }

\* One pass of the loop over the lines of the dump: what the line does to
\* in_city_temp and buffer, and whether the loop breaks.
ScanStep(in, buf, line) ==
    IF StartsWithTarget(Lower(line.head))
    THEN [in |-> TRUE, buf |-> Append(buf, line), brk |-> FALSE]
    ELSE IF in
         THEN [in |-> in, buf |-> Append(buf, line), brk |-> line.semi]
         ELSE [in |-> in, buf |-> buf, brk |-> FALSE]

ScanLine ==
    /\ pc = "load_city_temps"
    /\ line_idx < Len(lines)
    /\ LET r == ScanStep(in_city_temp, buffer, lines[line_idx + 1])
       IN /\ in_city_temp' = r.in
          /\ buffer' = r.buf
          /\ pc' = IF r.brk THEN "extract" ELSE pc
    /\ line_idx' = line_idx + 1
    /\ UNCHANGED <<loadVars, lines, match_idx, city_month_temps, error, buildVars,
                   mainVars, renderVars>>

EndOfDump ==
    /\ pc = "load_city_temps"
    /\ line_idx = Len(lines)
    /\ pc' = "extract"
    /\ UNCHANGED <<loadVars, dumpVars, error, buildVars, mainVars, renderVars>>

\* The parenthesised texts of the buffered lines, in the order the two
\* nested loops (lines of the buffer, matches of a line) visit them.
BufferTexts(buf) == Flatten([i \in 1..Len(buf) |-> buf[i].tuples])

Obs(p, c, m, t) == [province |-> p, city |-> c, month |-> m, temp |-> t]

\* The body of the loop over the matches, on one parenthesised text:
\* "skip" (no match, or no province for the city), "raise", or "yield".
Extract(map, t) ==
    IF ~Matches(t) THEN [kind |-> "skip"]
    ELSE IF ~FloatParses(t.temp) THEN [kind |-> "raise"]
    ELSE IF t.city \notin DOMAIN map \/ map[t.city] = "" THEN [kind |-> "skip"]
    ELSE [kind |-> "yield",
          obs |-> Obs(map[t.city], t.city, IntOf(t.month), FloatOf(t.temp))]

ExtractTuple ==
    /\ pc = "extract"
    /\ match_idx < Len(BufferTexts(buffer))
    /\ LET r == Extract(city_to_province, BufferTexts(buffer)[match_idx + 1])
       IN /\ city_month_temps' = IF r.kind = "yield"
                                 THEN Append(city_month_temps, r.obs)
                                 ELSE city_month_temps
          /\ error' = IF r.kind = "raise" THEN "ValueError" ELSE error
          /\ pc' = IF r.kind = "raise" THEN "raised" ELSE pc
    /\ match_idx' = match_idx + 1
    /\ UNCHANGED <<loadVars, lines, line_idx, in_city_temp, buffer, buildVars,
                   mainVars, renderVars>>

ExtractDone ==
    /\ pc = "extract"
    /\ match_idx = Len(BufferTexts(buffer))
    /\ pc' = "build_city_monthly_map"
    /\ UNCHANGED <<loadVars, dumpVars, error, buildVars, mainVars, renderVars>>

(***************************************************************************)
(* build_city_monthly_map                                                  *)
(***************************************************************************)
Key(o) == <<o.province, o.city, o.month>>

\* province_city_month[province][city][month] = temp
InsertKeepsFirst(table, o) ==
    IF Key(o) \in DOMAIN table THEN table ELSE (Key(o) :> o.temp) @@ table
Insert(table, o) == (Key(o) :> o.temp) @@ table

InsertObs ==
    /\ pc = "build_city_monthly_map"
    /\ obs_idx < Len(city_month_temps)
    /\ province_city_month' = Insert(province_city_month, city_month_temps[obs_idx + 1])
    /\ obs_idx' = obs_idx + 1
    /\ UNCHANGED <<pc, loadVars, dumpVars, error, mainVars, renderVars>>

BuildDone ==
    /\ pc = "build_city_monthly_map"
    /\ obs_idx = Len(city_month_temps)
    /\ pc' = "built"
    /\ UNCHANGED <<loadVars, dumpVars, error, buildVars, mainVars, renderVars>>

(***************************************************************************)
(* Specifications of the loading half of the pipeline.                     *)
(***************************************************************************)
IdleMain ==
    /\ count = 2
    /\ province_city_annual = NoMap
    /\ top_provinces = <<>>
    /\ monthly_dispersion = <<>>
    /\ selected_province = ""
    /\ months_for_selected = <<>>
    /\ chart_idx = 0
    /\ files = {}

IdleRender ==
    /\ labels = <<>>
    /\ labels2 = <<>>
    /\ values = <<>>
    /\ width = 0
    /\ svg = NoDoc
    /\ svg2 = NoDoc

IdleDump ==
    /\ line_idx = 0
    /\ in_city_temp = FALSE
    /\ buffer = <<>>
    /\ match_idx = 0
    /\ city_month_temps = <<>>

\* main from its first call: any reference table, one of the sample dumps.
Init ==
    /\ pc = "load_city_provinces"
    /\ rows \in StationFiles
    /\ row_idx = 0
    /\ city_to_province = NoMap
    /\ lines \in SampleDumps
    /\ IdleDump
    /\ error = "none"
    /\ obs_idx = 0
    /\ province_city_month = NoMap
    /\ IdleMain
    /\ IdleRender

Next ==
    \/ OpenStation
    \/ StationRow
    \/ StationDone
    \/ ScanLine
    \/ EndOfDump
    \/ ExtractTuple
    \/ ExtractDone
    \/ InsertObs
    \/ BuildDone

Spec == Init /\ [][Next]_vars

\* load_city_temps and build_city_monthly_map on any dump, with a lookup
\* that load_city_provinces returned.
InitDump ==
    /\ pc = "load_city_temps"
    /\ rows = <<>>
    /\ row_idx = 0
    /\ city_to_province \in Lookups
    /\ lines \in Dumps
    /\ IdleDump
    /\ error = "none"
    /\ obs_idx = 0
    /\ province_city_month = NoMap
    /\ IdleMain
    /\ IdleRender

NextDump ==
    \/ ScanLine
    \/ EndOfDump
    \/ ExtractTuple
    \/ ExtractDone
    \/ InsertObs
    \/ BuildDone

SpecDump == InitDump /\ [][NextDump]_vars

\* build_city_monthly_map on any sequence of observations.
Observations ==
    { Obs(p, c, m, t) : p \in {"A", "B"}, c \in {"a"}, m \in {1, 2}, t \in {5, -3} }

InitBuild ==
    /\ pc = "build_city_monthly_map"
    /\ rows = <<>>
    /\ row_idx = 0
    /\ city_to_province = NoMap
    /\ lines = <<>>
    /\ line_idx = 0
    /\ in_city_temp = FALSE
    /\ buffer = <<>>
    /\ match_idx = 0
    /\ city_month_temps \in SeqsUpTo(Observations, MaxObs)
    /\ error = "none"
    /\ obs_idx = 0
    /\ province_city_month = NoMap
    /\ IdleMain
    /\ IdleRender

NextBuild ==
    \/ InsertObs
    \/ BuildDone

SpecBuild == InitBuild /\ [][NextBuild]_vars

(***************************************************************************)
(* compute_annual_means, compute_top_provinces, compute_monthly_dispersion *)
(***************************************************************************)
RECURSIVE SumOf(_, _)
SumOf(f, S) ==
    IF S = {} THEN 0
    ELSE LET x == CHOOSE y \in S : TRUE IN f[x] + SumOf(f, S \ {x})

RECURSIVE ProdOf(_, _)
ProdOf(f, S) ==
    IF S = {} THEN 1
    ELSE LET x == CHOOSE y \in S : TRUE IN f[x] * ProdOf(f, S \ {x})

\* Order and equality of two fractions with positive denominators.
FracLess(a, b) == a[1] * b[2] < b[1] * a[2]
FracEq(a, b) == a[1] * b[2] = b[1] * a[2]

\* statistics.pstdev, squared, of the values q[i] = <<sum, n>> (the
\* fraction sum/n), i in I: with every value brought to the denominator
\* D = prod n and N = |I|, (N * sum(M^2) - (sum M)^2) / (N^2 * D^2).
PVariance(q, I) ==
    LET D == ProdOf([i \in I |-> q[i][2]], I)
        M == [i \in I |-> q[i][1] * (D \div q[i][2])]
        N == Cardinality(I)
    IN <<N * SumOf([i \in I |-> M[i] * M[i]], I) - SumOf(M, I) * SumOf(M, I),
         N * N * D * D>>

\* The order of Python's str on the province names of the model.
ProvinceOrder == <<"A", "B", "C">>
StrRank(s) == CHOOSE i \in 1..Len(ProvinceOrder) : ProvinceOrder[i] = s

\* Python's order of the tuples (dispersion, province) and
\* (dispersion, province, month): a > b.
TupleGreater(a, b) ==
    \/ FracLess(b[1], a[1])
    \/ /\ FracEq(a[1], b[1])
       /\ \/ StrRank(a[2]) > StrRank(b[2])
          \/ a[2] = b[2] /\ Len(a) = 3 /\ a[3] > b[3]

\* list.sort(reverse=True) of a list of distinct tuples.
RECURSIVE SortAscending(_)
SortAscending(S) ==
    IF S = {} THEN <<>>
    ELSE LET m == CHOOSE x \in S : \A y \in S \ {x} : TupleGreater(y, x)
         IN <<m>> \o SortAscending(S \ {m})
RECURSIVE SortReverse(_)
SortReverse(S) ==
    IF S = {} THEN <<>>
    ELSE LET m == CHOOSE x \in S : \A y \in S \ {x} : TupleGreater(x, y)
         IN <<m>> \o SortReverse(S \ {m})

ProvincesOf(table) == {k[1] : k \in DOMAIN table}
CitiesOf(table, p) == {k[2] : k \in {j \in DOMAIN table : j[1] = p}}
MonthsOf(table, p, c) == {k[3] : k \in {j \in DOMAIN table : j[1] = p /\ j[2] = c}}

\* compute_annual_means: <<province, city>> -> the mean of the city's months,
\* kept as <<sum, number of months>>.
ComputeAnnualMeans(table) ==
    [pcy \in {<<k[1], k[2]>> : k \in DOMAIN table} |->
        LET ms == MonthsOf(table, pcy[1], pcy[2])
        IN <<SumOf([m \in ms |-> table[<<pcy[1], pcy[2], m>>]], ms), Cardinality(ms)>>]

AnnualCities(annual, p) == {k[2] : k \in {j \in DOMAIN annual : j[1] = p}}

\* The list dispersions of compute_top_provinces, before it is sorted.
AnnualDispersions(annual) ==
    { <<PVariance([c \in AnnualCities(annual, p) |-> annual[<<p, c>>]],
                  AnnualCities(annual, p)), p>> :
        p \in {q \in {k[1] : k \in DOMAIN annual} :
                  Cardinality(AnnualCities(annual, q)) >= 2} }

Min2(a, b) == IF a < b THEN a ELSE b

ComputeTopProvincesIgnoresCount(annual, n) ==
    LET sorted == SortReverse(AnnualDispersions(annual))
    IN [i \in 1..Len(sorted) |-> sorted[i][2]]
ComputeTopProvinces(annual, n) ==
    LET sorted == SortReverse(AnnualDispersions(annual))
    IN [i \in 1..Min2(n, Len(sorted)) |-> sorted[i][2]]

\* The cities of a province that hold a value for a month.
CitiesWith(table, p, m) == {c \in CitiesOf(table, p) : <<p, c, m>> \in DOMAIN table}

MonthlyDispersions(table) ==
    { <<PVariance([c \in CitiesWith(table, pm[1], pm[2]) |-> <<table[<<pm[1], c, pm[2]>>], 1>>],
                  CitiesWith(table, pm[1], pm[2])), pm[1], pm[2]>> :
        pm \in {qm \in {<<k[1], k[3]>> : k \in DOMAIN table} :
                   Cardinality(CitiesWith(table, qm[1], qm[2])) >= 2} }

ComputeMonthlyDispersionUnsorted(table) == SortAscending(MonthlyDispersions(table))
ComputeMonthlyDispersion(table) == SortReverse(MonthlyDispersions(table))

(***************************************************************************)
(* main, from the aggregated table on.  A chart file is kept by its name.  *)
(***************************************************************************)
MainCount == 2
MaxMonthCharts == 3

\* monthly_dispersion[0][1]
SelectedProvince(md) == md[1][2]

\* [month for _, province, month in md if province == selected][:3]
MonthsForSelected(md, selected) ==
    LET own == SelectSeq(md, LAMBDA e : e[2] = selected)
        all == [i \in 1..Len(own) |-> own[i][3]]
    IN SubSeq(all, 1, Min2(MaxMonthCharts, Len(all)))

AnnualFile(p) == <<"annual_mean", p>>
MonthlyFile(p, m) == <<"monthly_mean", p, m>>

NoDataMessage == "No monthly dispersion data found."

\* main from compute_annual_means to the choice of the months; the variant
\* writes the annual charts before it tests monthly_dispersion.
AnalyzeChartsFirst ==
    /\ pc = "analyze"
    /\ LET annual == ComputeAnnualMeans(province_city_month)
           top == ComputeTopProvinces(annual, MainCount)
           md == ComputeMonthlyDispersion(province_city_month)
       IN /\ province_city_annual' = annual
          /\ top_provinces' = top
          /\ monthly_dispersion' = md
          /\ files' = {AnnualFile(top[i]) : i \in 1..Len(top)}
          /\ IF md = <<>>
             THEN /\ error' = NoDataMessage
                  /\ pc' = "exit"
                  /\ UNCHANGED <<selected_province, months_for_selected>>
             ELSE /\ selected_province' = SelectedProvince(md)
                  /\ months_for_selected' = MonthsForSelected(md, SelectedProvince(md))
                  /\ pc' = "annual_charts"
                  /\ UNCHANGED error
    /\ UNCHANGED <<loadVars, dumpVars, buildVars, count, chart_idx, renderVars>>
Analyze ==
    /\ pc = "analyze"
    /\ LET annual == ComputeAnnualMeans(province_city_month)
           top == ComputeTopProvinces(annual, MainCount)
           md == ComputeMonthlyDispersion(province_city_month)
       IN /\ province_city_annual' = annual
          /\ top_provinces' = top
          /\ monthly_dispersion' = md
          /\ IF md = <<>>
             THEN /\ error' = NoDataMessage
                  /\ pc' = "exit"
                  /\ UNCHANGED <<selected_province, months_for_selected>>
             ELSE /\ selected_province' = SelectedProvince(md)
                  /\ months_for_selected' = MonthsForSelected(md, SelectedProvince(md))
                  /\ pc' = "annual_charts"
                  /\ UNCHANGED error
    /\ UNCHANGED <<loadVars, dumpVars, buildVars, count, chart_idx, files, renderVars>>

WriteAnnualChart ==
    /\ pc = "annual_charts"
    /\ chart_idx < Len(top_provinces)
    /\ files' = files \cup {AnnualFile(top_provinces[chart_idx + 1])}
    /\ chart_idx' = chart_idx + 1
    /\ UNCHANGED <<pc, loadVars, dumpVars, error, buildVars, count, province_city_annual,
                   top_provinces, monthly_dispersion, selected_province,
                   months_for_selected, renderVars>>

AnnualChartsDone ==
    /\ pc = "annual_charts"
    /\ chart_idx = Len(top_provinces)
    /\ chart_idx' = 0
    /\ pc' = "monthly_charts"
    /\ UNCHANGED <<loadVars, dumpVars, error, buildVars, count, province_city_annual,
                   top_provinces, monthly_dispersion, selected_province,
                   months_for_selected, files, renderVars>>

WriteMonthlyChart ==
    /\ pc = "monthly_charts"
    /\ chart_idx < Len(months_for_selected)
    /\ files' = files \cup {MonthlyFile(selected_province, months_for_selected[chart_idx + 1])}
    /\ chart_idx' = chart_idx + 1
    /\ UNCHANGED <<pc, loadVars, dumpVars, error, buildVars, count, province_city_annual,
                   top_provinces, monthly_dispersion, selected_province,
                   months_for_selected, renderVars>>

MainDone ==
    /\ pc = "monthly_charts"
    /\ chart_idx = Len(months_for_selected)
    /\ pc' = "done"
    /\ UNCHANGED <<loadVars, dumpVars, error, buildVars, mainVars, renderVars>>

\* compute_top_provinces on the annual means of a table, for any count.
ComputeTop ==
    /\ pc = "compute_top_provinces"
    /\ province_city_annual' = ComputeAnnualMeans(province_city_month)
    /\ top_provinces' = ComputeTopProvinces(ComputeAnnualMeans(province_city_month), count)
    /\ pc' = "ranked"
    /\ UNCHANGED <<loadVars, dumpVars, error, buildVars, count, monthly_dispersion,
                   selected_province, months_for_selected, chart_idx, files, renderVars>>

(***************************************************************************)
(* The tables the analysis starts from: each province has two cities, and  *)
(* at most MaxCells (province, month) cells hold values, each cell one of  *)
(* the given patterns (city index, temperature).                           *)
(***************************************************************************)
CityNames == [A |-> <<"a1", "a2">>, B |-> <<"b1", "b2">>, C |-> <<"c1", "c2">>]

Fillings(cells, patterns) ==
    UNION {[S -> patterns] : S \in {T \in SUBSET cells : Cardinality(T) <= MaxCells}}

TableOf(f) ==
    [k \in UNION {{<<cell[1], CityNames[cell[1]][e[1]], cell[2]>> : e \in f[cell]} :
                     cell \in DOMAIN f} |->
        (CHOOSE e \in f[<<k[1], k[3]>>] : CityNames[k[1]][e[1]] = k[2])[2]]

MainCells == {"A", "B"} \X {1, 2, 3, 4}
MainPatterns == { {<<1, 0>>}, {<<2, 8>>}, {<<1, 0>>, <<2, 8>>}, {<<1, 0>>, <<2, 12>>} }

TopCells == {"A", "B", "C"} \X {1, 2}
TopPatterns == { {<<1, 0>>}, {<<1, 0>>, <<2, 6>>}, {<<1, 0>>, <<2, 10>>} }

IdleLoad ==
    /\ rows = <<>>
    /\ row_idx = 0
    /\ city_to_province = NoMap
    /\ lines = <<>>
    /\ IdleDump
    /\ obs_idx = 0

InitMain ==
    /\ pc = "analyze"
    /\ IdleLoad
    /\ error = "none"
    /\ province_city_month \in {TableOf(f) : f \in Fillings(MainCells, MainPatterns)}
    /\ IdleMain
    /\ IdleRender

NextMain ==
    \/ Analyze
    \/ WriteAnnualChart
    \/ AnnualChartsDone
    \/ WriteMonthlyChart
    \/ MainDone

SpecMain == InitMain /\ [][NextMain]_vars

InitTop ==
    /\ pc = "compute_top_provinces"
    /\ IdleLoad
    /\ error = "none"
    /\ province_city_month \in {TableOf(f) : f \in Fillings(TopCells, TopPatterns)}
    /\ count \in 0..MaxCount
    /\ province_city_annual = NoMap
    /\ top_provinces = <<>>
    /\ monthly_dispersion = <<>>
    /\ selected_province = ""
    /\ months_for_selected = <<>>
    /\ chart_idx = 0
    /\ files = {}
    /\ IdleRender

NextTop == ComputeTop

SpecTop == InitTop /\ [][NextTop]_vars

(***************************************************************************)
(* render_bar_chart_svg.  A coordinate that depends on scale() is kept as  *)
(* its numerator over the common denominator max_val - min_val of the      *)
(* document (den).                                                         *)
(***************************************************************************)
DefaultWidth == 1200
DefaultBarHeight == 18
DefaultLabelWidth == 140
DefaultMargin == 30
LabelWidthCap == 240
CharWidth == 12
BarGap == 6
AxisRoom == 40

Max2(a, b) == IF a > b THEN a ELSE b

MinOf(vs) == CHOOSE v \in {vs[i] : i \in 1..Len(vs)} : \A j \in 1..Len(vs) : v <= vs[j]
MaxOf(vs) == CHOOSE v \in {vs[i] : i \in 1..Len(vs)} : \A j \in 1..Len(vs) : v >= vs[j]

\* max((len(label) for label in labels), default=0)
MaxLabelLenFirst(ls) == IF ls = <<>> THEN 0 ELSE Len(ls[1])
MaxLabelLen(ls) ==
    IF ls = <<>> THEN 0
    ELSE CHOOSE n \in {Len(ls[i]) : i \in 1..Len(ls)} : \A j \in 1..Len(ls) : n >= Len(ls[j])

\* label_width = max(label_width, min(240, max_label_len * 12))
LabelWidth(ls, lw) == Max2(lw, Min2(LabelWidthCap, MaxLabelLen(ls) * CharWidth))

\* The value domain: widened by one each way when all values are equal.
MinVal(vs) == IF MinOf(vs) = MaxOf(vs) THEN MinOf(vs) - 1 ELSE MinOf(vs)
MaxVal(vs) == IF MinOf(vs) = MaxOf(vs) THEN MaxOf(vs) + 1 ELSE MaxOf(vs)

\* scale(val), as its numerator over max_val - min_val.
Scale(val, vs, cw) == (val - MinVal(vs)) * cw

\* bar_x = zero_x if bar_len >= 0 else zero_x + bar_len
BarX(zero, len) == IF len >= 0 THEN zero ELSE zero + len

Abs(x) == IF x < 0 THEN -x ELSE x

RenderBarChartSvg(ls, vs, w, bar_height, lw0, margin) ==
    LET lw == LabelWidth(ls, lw0)
        cw == w - lw - margin * 2
        den == MaxVal(vs) - MinVal(vs)
        zero == (lw + margin) * den + Scale(0, vs, cw)
        n == Min2(Len(ls), Len(vs))
    IN [rendered |-> TRUE,
        den |-> den,
        label_width |-> lw,
        chart_width |-> cw,
        height |-> margin * 2 + Len(ls) * (bar_height + BarGap) + AxisRoom,
        axis_x1 |-> lw + margin,
        axis_x2 |-> w - margin,
        zero_x |-> zero,
        bars |-> [i \in 1..n |->
                    LET bar_len == Scale(vs[i], vs, cw) - Scale(0, vs, cw)
                    IN [x |-> BarX(zero, bar_len),
                        y |-> margin + 30 + (i - 1) * (bar_height + BarGap),
                        w |-> Abs(bar_len),
                        value |-> vs[i]]]]

Render ==
    /\ pc = "render"
    /\ svg' = RenderBarChartSvg(labels, values, width, DefaultBarHeight,
                                DefaultLabelWidth, DefaultMargin)
    /\ svg2' = RenderBarChartSvg(labels2, values, width, DefaultBarHeight,
                                 DefaultLabelWidth, DefaultMargin)
    /\ pc' = "rendered"
    /\ UNCHANGED <<loadVars, dumpVars, error, buildVars, mainVars, labels, labels2,
                   values, width>>

LabelTexts == {"X", "YY", "Xilingol League", "Bayingolin Mongol Autonomous"}
ChartValues == {-1, 1, 2}
Widths == {DefaultWidth, 200}

\* Two renderings of the same values and layout under two label sequences.
InitRender ==
    /\ pc = "render"
    /\ IdleLoad
    /\ error = "none"
    /\ province_city_month = NoMap
    /\ IdleMain
    /\ \E n \in 1..MaxBars :
          /\ values \in [1..n -> ChartValues]
          /\ labels \in [1..n -> LabelTexts]
          /\ labels2 \in [1..n -> LabelTexts]
    /\ width \in Widths
    /\ svg = NoDoc
    /\ svg2 = NoDoc

NextRender == Render

SpecRender == InitRender /\ [][NextRender]_vars

(***************************************************************************)
(* Properties of the loading half.                                         *)
(***************************************************************************)
\* The statement the extractor is meant to consume: the lines from the
\* first one that starts with the insert marker up to and including the
\* first of them that holds a ';' (up to the end if none does).
InsertIdx(ls) == {i \in 1..Len(ls) : StartsWithTarget(Lower(ls[i].head))}
Least(S) == CHOOSE i \in S : \A j \in S : i <= j
StatementLines(ls) ==
    IF InsertIdx(ls) = {} THEN <<>>
    ELSE LET start == Least(InsertIdx(ls))
             semis == {i \in start..Len(ls) : ls[i].semi}
             term == IF semis = {} THEN Len(ls) ELSE Least(semis)
         IN SubSeq(ls, start, term)

\* C1: only the first insert statement is consumed: every buffered line is a
\* line of that statement, from its first line up to the first buffered line
\* holding ';', and no line after that one is ever buffered.
C1_OnlyFirstStatementBuffered == IsPrefix(buffer, StatementLines(lines))

\* A tuple text of the shape (digits, 'text', signed decimal).
WellFormed(t) == t.month \in DigitTexts /\ t.city # "" /\ FloatParses(t.temp)

RECURSIVE ExpectedObs(_, _)
ExpectedObs(map, ts) ==
    IF ts = <<>> THEN <<>>
    ELSE LET t == Head(ts)
             rest == ExpectedObs(map, Tail(ts))
         IN IF WellFormed(t) /\ t.city \in DOMAIN map
            THEN <<Obs(map[t.city], t.city, IntOf(t.month), FloatOf(t.temp))>> \o rest
            ELSE rest

ExtractionOver == pc \in {"build_city_monthly_map", "built", "raised"}

\* C2: once load_city_temps is exhausted, the well-formed tuples of the
\* statement that name a known city have each yielded one observation, in
\* dump order and with the lookup's province, and every observation names a
\* known city.
C2_EveryKnownTupleYields ==
    ExtractionOver =>
        /\ IsPrefix(ExpectedObs(city_to_province, BufferTexts(StatementLines(lines))),
                    city_month_temps)
        /\ \A i \in 1..Len(city_month_temps) :
               /\ city_month_temps[i].city \in DOMAIN city_to_province
               /\ city_month_temps[i].province = city_to_province[city_month_temps[i].city]

\* C6: data-quality gaps never surface as errors: the loaders never raise.
C6_NoErrorSurfaces == error = "none" /\ pc # "raised"

ValidRow(row) == Len(row) >= 4 /\ Strip(row[3]) # "" /\ Strip(row[4]) # ""

\* The rows read so far, header excluded.
RowsRead == SubSeq(rows, 2, row_idx)

ValidIdx(rs, city) == {i \in 1..Len(rs) : ValidRow(rs[i]) /\ Strip(rs[i][4]) = city}
ValidCities(rs) == {Strip(rs[i][4]) : i \in {j \in 1..Len(rs) : ValidRow(rs[j])}}

\* C7: the mapping is fixed by first occurrence: after any number of rows it
\* holds exactly the cities of the valid rows read, each with the province
\* of its first valid row, and every city of the province/city/month table
\* stands under that one province.
C7_FirstOccurrenceWins ==
    /\ (pc # "load_city_provinces" /\ rows # <<>>) =>
          /\ DOMAIN city_to_province = ValidCities(RowsRead)
          /\ \A c \in DOMAIN city_to_province :
                city_to_province[c] = Strip(RowsRead[Least(ValidIdx(RowsRead, c))][3])
    /\ \A k \in DOMAIN province_city_month :
          /\ k[2] \in DOMAIN city_to_province
          /\ k[1] = city_to_province[k[2]]
    /\ \A k1, k2 \in DOMAIN province_city_month : k1[2] = k2[2] => k1[1] = k2[1]

\* A city with valid rows under two provinces whose observations are in the table.
C7_Witness ==
    /\ pc = "built"
    /\ \E c \in DOMAIN city_to_province :
          /\ \E i, j \in ValidIdx(RowsRead, c) : Strip(RowsRead[i][3]) # Strip(RowsRead[j][3])
          /\ \E k \in DOMAIN province_city_month : k[2] = c

Consumed == SubSeq(city_month_temps, 1, obs_idx)
KeyIdx(os, k) == {i \in 1..Len(os) : Key(os[i]) = k}
Greatest(S) == CHOOSE i \in S : \A j \in S : j <= i

\* C8: last write wins: the table holds exactly the keys of the observations
\* consumed, each with the temperature of the last observation of that key.
C8_LastWriteWins ==
    /\ DOMAIN province_city_month = {Key(Consumed[i]) : i \in 1..Len(Consumed)}
    /\ \A k \in DOMAIN province_city_month :
          province_city_month[k] = Consumed[Greatest(KeyIdx(Consumed, k))].temp

\* Two observations of one key with different temperatures were consumed,
\* and an observation of another key before them.
C8_Witness ==
    /\ pc = "built"
    /\ \E i, j \in 1..Len(city_month_temps) :
          /\ i < j
          /\ Key(city_month_temps[i]) = Key(city_month_temps[j])
          /\ city_month_temps[i].temp # city_month_temps[j].temp
    /\ Cardinality(DOMAIN province_city_month) >= 2

(***************************************************************************)
(* Properties of the analysis and of main.                                 *)
(***************************************************************************)
\* The (province, month) pairs that hold values of at least two cities.
EligiblePairs(table) ==
    { <<k[1], k[3]>> : k \in {j \in DOMAIN table :
          \E i \in DOMAIN table : i[1] = j[1] /\ i[3] = j[3] /\ i[2] # j[2]} }

Analyzed == pc \in {"annual_charts", "monthly_charts", "done"}

\* The entry's dispersion is d (its square is d * d).
DispersionIs(e, d) == e[1][1] = d * d * e[1][2]
DispersionAbove(e, d) == e[1][1] > d * d * e[1][2]

\* Positions of the selected province's entries in monthly_dispersion.
OwnIdx == {i \in 1..Len(monthly_dispersion) : monthly_dispersion[i][2] = selected_province}

C3_EntriesAndSelection ==
    /\ {<<monthly_dispersion[i][2], monthly_dispersion[i][3]>> :
            i \in 1..Len(monthly_dispersion)} = EligiblePairs(province_city_month)
    /\ Len(monthly_dispersion) = Cardinality(EligiblePairs(province_city_month))
    /\ \A i, j \in 1..Len(monthly_dispersion) :
          i < j => TupleGreater(monthly_dispersion[i], monthly_dispersion[j])
    /\ selected_province = monthly_dispersion[1][2]
    /\ Len(months_for_selected) = Min2(3, Cardinality(OwnIdx))
    /\ \A j \in 1..Len(months_for_selected) :
          \E i \in OwnIdx : /\ Cardinality({h \in OwnIdx : h < i}) = j - 1
                            /\ months_for_selected[j] = monthly_dispersion[i][3]
    /\ \A i, j \in 1..Len(months_for_selected) :
          i # j => months_for_selected[i] # months_for_selected[j]

\* Province P has exactly the entries month 1 with dispersion 4.0 and month 2
\* with dispersion 6.0, and no entry of another province exceeds 6.0.
ExampleOfC3(P) ==
    /\ {monthly_dispersion[i][3] : i \in {h \in 1..Len(monthly_dispersion) :
            monthly_dispersion[h][2] = P}} = {1, 2}
    /\ \A i \in 1..Len(monthly_dispersion) :
          LET e == monthly_dispersion[i]
          IN /\ (e[2] = P /\ e[3] = 1) => DispersionIs(e, 4)
             /\ (e[2] = P /\ e[3] = 2) => DispersionIs(e, 6)
             /\ e[2] # P => ~DispersionAbove(e, 6)

\* No other province reaches 6.0 under a name that sorts after P.
NoLaterTie(P) ==
    \A i \in 1..Len(monthly_dispersion) :
        LET e == monthly_dispersion[i]
        IN (e[2] # P /\ DispersionIs(e, 6)) => StrRank(e[2]) < StrRank(P)

\* C3 as stated: the entries, their order, the selection, and for a province
\* P with month 1 at 4.0 and month 2 at 6.0 and no other province above 6.0
\* the selected province is P with month 2 before month 1.
C3_AsStated ==
    Analyzed =>
        /\ C3_EntriesAndSelection
        /\ \A P \in ProvincesOf(province_city_month) :
              ExampleOfC3(P) => selected_province = P /\ months_for_selected = <<2, 1>>

\* C3 amended: the same, where in the example no other province exceeds 6.0
\* nor reaches 6.0 under a province name that sorts after P.
C3_MonthlySelection ==
    Analyzed =>
        /\ C3_EntriesAndSelection
        /\ \A P \in ProvincesOf(province_city_month) :
              (ExampleOfC3(P) /\ NoLaterTie(P)) =>
                  selected_province = P /\ months_for_selected = <<2, 1>>

\* The example with P = B, while province A reaches 6.0 as well.
C3_Witness ==
    /\ pc = "done"
    /\ ExampleOfC3("B")
    /\ \E i \in 1..Len(monthly_dispersion) :
          monthly_dispersion[i][2] = "A" /\ DispersionIs(monthly_dispersion[i], 6)
    /\ selected_province = "B"
    /\ months_for_selected = <<2, 1>>
    /\ files = {AnnualFile("B"), AnnualFile("A"), MonthlyFile("B", 2), MonthlyFile("B", 1)}

\* The provinces with at least two cities that have an annual mean.
EligibleProvinces(table) ==
    {p \in ProvincesOf(table) : Cardinality(CitiesOf(table, p)) >= 2}

\* The tuple (dispersion, province) of a province.
AnnualEntry(p) ==
    <<PVariance([c \in AnnualCities(province_city_annual, p) |-> province_city_annual[<<p, c>>]],
                AnnualCities(province_city_annual, p)), p>>

TopSet == {top_provinces[i] : i \in 1..Len(top_provinces)}

\* C4: at most count names, all eligible, in descending (dispersion,
\* province) order, none left out that ranks above one returned; for
\* dispersions A: 5.0, B: 5.0, C: 3.0 and count 2 the result holds A and B
\* and not C.
C4_TopProvinces ==
    pc = "ranked" =>
        /\ Len(top_provinces) <= count
        /\ TopSet \subseteq EligibleProvinces(province_city_month)
        /\ \A i, j \in 1..Len(top_provinces) :
              i < j => TupleGreater(AnnualEntry(top_provinces[i]), AnnualEntry(top_provinces[j]))
        /\ \A p \in EligibleProvinces(province_city_month) \ TopSet :
              \A q \in TopSet : ~TupleGreater(AnnualEntry(p), AnnualEntry(q))
        /\ ( /\ count = 2
             /\ EligibleProvinces(province_city_month) = {"A", "B", "C"}
             /\ DispersionIs(AnnualEntry("A"), 5)
             /\ DispersionIs(AnnualEntry("B"), 5)
             /\ DispersionIs(AnnualEntry("C"), 3) ) => TopSet = {"A", "B"}

C4_Witness ==
    /\ pc = "ranked"
    /\ count = 2
    /\ EligibleProvinces(province_city_month) = {"A", "B", "C"}
    /\ DispersionIs(AnnualEntry("A"), 5)
    /\ DispersionIs(AnnualEntry("B"), 5)
    /\ DispersionIs(AnnualEntry("C"), 3)
    /\ top_provinces = <<"B", "A">>

\* C5: with no (province, month) pair of two cities main ends in SystemExit
\* with the message, and no chart file has been written.
C5_EmptyResultIsFatal ==
    (pc # "analyze" /\ EligiblePairs(province_city_month) = {}) =>
        /\ pc = "exit"
        /\ error = NoDataMessage
        /\ files = {}

\* main exits although compute_top_provinces returned a province.
C5_Witness ==
    /\ pc = "exit"
    /\ error = NoDataMessage
    /\ top_provinces # <<>>
    /\ files = {}

(***************************************************************************)
(* Properties of the renderer.                                             *)
(***************************************************************************)
BothRendered == svg.rendered /\ svg2.rendered

\* One bar per entry; a positive value's bar starts at the zero line and
\* extends right, a negative value's bar ends at it and extends left.
BarsDiverge(doc) ==
    /\ Len(doc.bars) = Len(values)
    /\ \A i \in 1..Len(doc.bars) :
          LET b == doc.bars[i]
          IN /\ b.value > 0 => (b.x = doc.zero_x /\ b.w > 0)
             /\ b.value < 0 => (b.x + b.w = doc.zero_x /\ b.w > 0)

\* C9 as stated, at the default layout: for any two label sequences of the
\* same length the zero line is at the same x, with diverging bars.
C9_AsStated ==
    (BothRendered /\ width = DefaultWidth) =>
        /\ svg.zero_x = svg2.zero_x
        /\ BarsDiverge(svg)
        /\ BarsDiverge(svg2)

\* The label column the longest label of a sequence asks for.
LabelLens(ls) == {Len(ls[i]) : i \in 1..Len(ls)}
Column(ls) ==
    Max2(DefaultLabelWidth,
         Min2(240, 12 * (CHOOSE n \in LabelLens(ls) : \A m \in LabelLens(ls) : m <= n)))

\* C9 amended: the zero line is at the same x for two label sequences whose
\* longest labels give the same label-column width; there is one bar per
\* entry, and the bars diverge from the zero line when the chart width is
\* positive.
C9_ZeroLineFollowsLabelColumn ==
    BothRendered =>
        /\ Column(labels) = Column(labels2) => svg.zero_x = svg2.zero_x
        /\ Len(svg.bars) = Len(values) /\ Len(svg2.bars) = Len(values)
        /\ svg.chart_width > 0 => BarsDiverge(svg)
        /\ svg2.chart_width > 0 => BarsDiverge(svg2)

\* Labels ["X", "YY"] and other labels of the same column width, values
\* [1, -1], default layout.
C9_Witness ==
    /\ BothRendered
    /\ labels = <<"X", "YY">>
    /\ labels2 = <<"YY", "X">>
    /\ values = <<1, -1>>
    /\ width = DefaultWidth
    /\ svg.zero_x = svg2.zero_x
    /\ svg.bars[1].x = svg.zero_x
    /\ svg.bars[2].x + svg.bars[2].w = svg.zero_x

\* C10: under the default layout the zero line and every bar lie inside the
\* plotting area [label_width + margin, width - margin].
C10_InsidePlottingArea ==
    (svg.rendered /\ width = DefaultWidth) =>
        /\ svg.axis_x1 * svg.den <= svg.zero_x
        /\ svg.zero_x <= svg.axis_x2 * svg.den
        /\ \A i \in 1..Len(svg.bars) :
              /\ svg.bars[i].x >= svg.axis_x1 * svg.den
              /\ svg.bars[i].x + svg.bars[i].w <= svg.axis_x2 * svg.den

====
